---------------------------- MODULE Spec2Model ----------------------------
(***************************************************************************)
(* Model of atspi-tree-visualizer (src/src/main.rs): the event listener,   *)
(* the tree walks it spawns (dfs_collect_children), the unbounded channel  *)
(* from the walks to the GUI, and ScreenPainterGUI::update, the frame      *)
(* callback that polls the channel and paints one marker per element.      *)
(*                                                                         *)
(* The accessibility tree is environment data: a forest over Nodes given   *)
(* by a parent map, a Showing flag per node and the extents of each node.  *)
(* Every remote call (D-Bus method call) may succeed, fail or never        *)
(* return; which one is an input of the step that issues the call.         *)
(***************************************************************************)
EXTENDS Integers, Sequences, FiniteSets

(* Bounds of the model: the nodes of the forests a single walk is checked  *)
(* on, the nodes of the document the whole pipeline runs on, the events    *)
(* the listener takes from the stream (in the pipeline, and in the         *)
(* pipeline under fairness), and the runtime's worker threads.             *)
NumNodes == 4
PipeNodes == 3
MaxEvents == 2
FairEvents == 1
NumWorkers == 1

VARIABLES
    parent,            \* environment: parent[n] = parent of node n, 0 for a root
    showing,           \* environment: showing[n] = State::Showing of node n
    events,            \* items the listener has taken from the event stream
    listener,          \* the listener task: "running" or "stopped"
    walks,             \* the spawned walk tasks, in spawn order
    sent,              \* every Vec<ObjectRef> sent on tx_gui, in send order
    rcvd,              \* how many of them try_recv has taken (queue head)
    state,             \* ScreenPainterGUI.state: None or Some(refs)
    guiPc,             \* the frame callback: "idle", "painting" or "hung"
    painted,           \* markers painted by the frame
    skipped,           \* elements the frame reported an error for
    tryRecvOk,         \* this frame's try_recv returned Ok(points)
    repaintRequested,  \* egui has a repaint of the viewport pending
    startupTask        \* the one-shot task of main.rs:73: "pending" or "done"

vars == <<parent, showing, events, listener, walks, sent, rcvd, state,
          guiPc, painted, skipped, repaintRequested, startupTask, tryRecvOk>>

envVars == <<parent, showing>>
listenerVars == <<events, listener>>
chanVars == <<sent, rcvd>>
guiVars ==
    <<state, guiPc, painted, skipped, repaintRequested, tryRecvOk>>

-----------------------------------------------------------------------------
(* Sequences and options. *)

Range(s) == {s[i] : i \in 1..Len(s)}

NoDup(s) == \A i, j \in 1..Len(s) : i # j => s[i] # s[j]

None == <<>>
Some(v) == <<v>>

RECURSIVE SeqOfSet(_)
SeqOfSet(S) ==
    IF S = {} THEN <<>>
    ELSE LET m == CHOOSE x \in S : \A y \in S : x <= y
         IN  <<m>> \o SeqOfSet(S \ {m})

RECURSIVE LastNonEmpty(_)
LastNonEmpty(q) ==
    IF q = <<>> THEN None
    ELSE IF q[Len(q)] # <<>> THEN Some(q[Len(q)])
    ELSE LastNonEmpty(SubSeq(q, 1, Len(q) - 1))

-----------------------------------------------------------------------------
(* The accessibility tree (environment). *)

Nodes == DOMAIN parent

(* Every forest over 1..NumNodes, children listed in increasing order. *)
Forests ==
    {p \in [1..NumNodes -> 0..(NumNodes - 1)] : \A n \in 1..NumNodes : p[n] < n}

(* A document whose every element has one child: 1 - 2 - ... - PipeNodes. *)
ChainParent == [n \in 1..PipeNodes |-> n - 1]

ChildSet(n) == {c \in Nodes : parent[c] = n}

GetChildren(n) == SeqOfSet(ChildSet(n))

RECURSIVE IsAncestor(_, _)
IsAncestor(a, n) ==
    /\ parent[n] # 0
    /\ \/ parent[n] = a
       \/ IsAncestor(a, parent[n])

Descendants(r) == {n \in Nodes : IsAncestor(r, n)}

(* f32 has a 24-bit significand: every integer of magnitude up to 2^24 is *)
(* an f32, and beyond that only the multiples of a growing power of two.   *)
F32Exact == 16777216

Abs(i) == IF i < 0 THEN 0 - i ELSE i

(* The spacing of the f32 values around magnitude a. *)
RECURSIVE Ulp(_)
Ulp(a) == IF a < F32Exact THEN 1 ELSE 2 * Ulp(a \div 2)

(* The multiple of u nearest to a, the even multiple on a tie. *)
RoundToEven(a, u) ==
    IF 2 * (a % u) < u THEN a - (a % u)
    ELSE IF 2 * (a % u) > u THEN a - (a % u) + u
    ELSE IF (a \div u) % 2 = 0 THEN a - (a % u)
    ELSE a - (a % u) + u

(* `i as f32`, the f32 of an integer: the nearest f32, ties to even. *)
ToF32(i) ==
    IF Abs(i) <= F32Exact THEN i
    ELSE IF i < 0 THEN 0 - RoundToEven(0 - i, Ulp(0 - i))
    ELSE RoundToEven(i, Ulp(i))

(* a + b in f32, for integral a and b: the exact sum, rounded. *)
F32Add(a, b) == ToF32(a + b)

(* The extents (x, y, width, height) the component of node n answers, as  *)
(* i32: node 2 is at (100, 200); every third node is far off the screen,   *)
(* at coordinates that are not f32 values.                                 *)
GetExtents(n) ==
    IF n % 3 = 0
    THEN <<F32Exact + 1, 0 - (F32Exact + 3), 30 + n, 20 + 2 * n>>
    ELSE <<100 * (n - 1), 200 * (n - 1), 30 + n, 20 + 2 * n>>

MarkerSize == 10

(* Mutant: the marker is as wide and as high as the element. *)
MarkerOfSize(e) ==
    LET ext == GetExtents(e)
        x0 == ToF32(ext[1])
        y0 == ToF32(ext[2])
    IN  [x0 |-> x0, y0 |-> y0,
         x1 |-> F32Add(x0, ToF32(ext[3])), y1 |-> F32Add(y0, ToF32(ext[4]))]

(* The Rect of lines 170-173, from the f32 ranges of x and of y. *)
Marker(e) ==
    LET ext == GetExtents(e)
        x0 == ToF32(ext[1])
        y0 == ToF32(ext[2])
    IN  [x0 |-> x0, y0 |-> y0,
         x1 |-> F32Add(x0, MarkerSize), y1 |-> F32Add(y0, MarkerSize)]

-----------------------------------------------------------------------------
(* The tokio runtime: a task is polled only while a worker thread is free. *)
(* A walk whose block_on(get_state()) never returns keeps its worker.      *)

Blocked == {w \in 1..Len(walks) : walks[w].status = "blocked"}

TaskCanRun == Cardinality(Blocked) < NumWorkers

-----------------------------------------------------------------------------
(* dfs_collect_children and the task that runs it. *)

NewWalk(target) ==
    [root |-> target, status |-> "resolving", stack |-> <<>>, children |-> <<>>,
     collected |-> <<>>, popped |-> <<>>, dropped |-> <<>>]

(* Mutant: the root is treated like a child, collected if it is showing. *)
EnteredCollectsRoot(wk) ==
    [wk EXCEPT !.status = "walking", !.stack = <<wk.root>>,
               !.collected = IF showing[wk.root] THEN <<wk.root>> ELSE <<>>]

(* The target resolved: dfs_collect_children starts with the root stacked. *)
Entered(wk) == [wk EXCEPT !.status = "walking", !.stack = <<wk.root>>]

(* Mutant: the error ends the loop and the walk returns what it has. *)
AbandonKeepsPartial(wk) ==
    [wk EXCEPT !.status = "walking", !.stack = <<>>, !.children = <<>>]

(* A failed call: `?` returns the error and the locals are dropped;        *)
(* `dropped` records the references the walk had collected by then.        *)
Abandon(wk) ==
    [wk EXCEPT !.status = "failed", !.stack = <<>>, !.children = <<>>,
               !.collected = <<>>, !.popped = <<>>,
               !.dropped = wk.collected]

(* A call that never returns: the task is never polled again and what it  *)
(* held is never read again, so the model keeps none of it.                *)
Suspend(wk) ==
    [wk EXCEPT !.status = "hung", !.stack = <<>>, !.children = <<>>,
               !.collected = <<>>, !.popped = <<>>]

LoopHead(wk) ==
    [wk EXCEPT !.status = IF wk.children = <<>> THEN "walking" ELSE "children"]

(* Mutant: the node is read from the top of the stack but left on it. *)
PopNodeKeep(wk) ==
    LET n == wk.stack[Len(wk.stack)]
    IN  LoopHead([wk EXCEPT !.children = GetChildren(n),
                            !.popped = Append(wk.popped, n)])

PopNode(wk) ==
    LET n == wk.stack[Len(wk.stack)]
    IN  LoopHead([wk EXCEPT !.stack = SubSeq(wk.stack, 1, Len(wk.stack) - 1),
                            !.children = GetChildren(n),
                            !.popped = Append(wk.popped, n)])

(* Mutant: only a showing child is pushed, pruning below invisible nodes. *)
PushChildIfShowing(wk) ==
    IF showing[Head(wk.children)]
    THEN [wk EXCEPT !.stack = Append(wk.stack, Head(wk.children))]
    ELSE wk

PushChild(wk) == [wk EXCEPT !.stack = Append(wk.stack, Head(wk.children))]

(* Mutant: the child is collected without looking at its state. *)
CollectChildAlways(wk) ==
    [wk EXCEPT !.collected = Append(wk.collected, Head(wk.children))]

CollectChild(wk) ==
    LET child == Head(wk.children)
    IN  [wk EXCEPT !.collected = IF showing[child]
                                 THEN Append(wk.collected, child)
                                 ELSE wk.collected]

VisitChild(wk) ==
    LET done == CollectChild(PushChild(wk))
    IN  LoopHead([done EXCEPT !.children = Tail(wk.children)])

(* block_on(get_state()) never returns: the worker thread stays in it. *)
BlockOnState(wk) == [Suspend(PushChild(wk)) EXCEPT !.status = "blocked"]

WalkResolve(w) ==
    /\ w \in 1..Len(walks)
    /\ walks[w].status = "resolving"
    /\ TaskCanRun
    /\ \E r \in {"ok", "err", "hang"} :
          walks' = [walks EXCEPT ![w] =
                       CASE r = "ok" -> Entered(walks[w])
                         [] r = "err" -> Abandon(walks[w])
                         [] r = "hang" -> Suspend(walks[w])]
    /\ UNCHANGED <<envVars, listenerVars, chanVars, guiVars, startupTask>>

WalkPop(w) ==
    /\ w \in 1..Len(walks)
    /\ walks[w].status = "walking"
    /\ walks[w].stack # <<>>
    /\ TaskCanRun
    /\ \E r \in {"ok", "err", "hang"} :
          walks' = [walks EXCEPT ![w] =
                       CASE r = "ok" -> PopNode(walks[w])
                         [] r = "err" -> Abandon(walks[w])
                         [] r = "hang" -> Suspend(walks[w])]
    /\ UNCHANGED <<envVars, listenerVars, chanVars, guiVars, startupTask>>

WalkChild(w) ==
    /\ w \in 1..Len(walks)
    /\ walks[w].status = "children"
    /\ TaskCanRun
    /\ \E r \in {"ok", "proxyErr", "stateErr", "proxyHang", "stateHang"} :
          walks' = [walks EXCEPT ![w] =
                       CASE r = "ok" -> VisitChild(walks[w])
                         [] r \in {"proxyErr", "stateErr"} -> Abandon(walks[w])
                         [] r = "proxyHang" -> Suspend(walks[w])
                         [] r = "stateHang" -> BlockOnState(walks[w])]
    /\ UNCHANGED <<envVars, listenerVars, chanVars, guiVars, startupTask>>

(* Mutant: the task is left where it can send its result again. *)
DeliveredRetry(wk) == [wk EXCEPT !.status = "walking"]

(* The task ends after tx_inner.send. *)
Delivered(wk) == [wk EXCEPT !.status = "sent"]

WalkReturn(w) ==
    /\ w \in 1..Len(walks)
    /\ walks[w].status = "walking"
    /\ walks[w].stack = <<>>
    /\ TaskCanRun
    /\ sent' = Append(sent, walks[w].collected)
    /\ walks' = [walks EXCEPT ![w] = Delivered(walks[w])]
    /\ UNCHANGED <<envVars, listenerVars, rcvd, guiVars, startupTask>>

-----------------------------------------------------------------------------
(* The event listener task. *)

RecvLoadComplete(target) ==
    /\ listener = "running"
    /\ TaskCanRun
    /\ events' = Append(events, "load")
    /\ walks' = Append(walks, NewWalk(target))
    /\ UNCHANGED <<envVars, listener, chanVars, guiVars, startupTask>>

(* Mutant: an event of another kind starts a walk as well. *)
RecvOtherSpawns ==
    /\ listener = "running"
    /\ TaskCanRun
    /\ events' = Append(events, "other")
    /\ walks' = Append(walks, NewWalk(1))
    /\ UNCHANGED <<envVars, listener, chanVars, guiVars, startupTask>>

RecvOther ==
    /\ listener = "running"
    /\ TaskCanRun
    /\ events' = Append(events, "other")
    /\ UNCHANGED <<envVars, listener, walks, chanVars, guiVars, startupTask>>

(* Mutant: an error item ends the listener loop. *)
RecvErrorFatal ==
    /\ listener = "running"
    /\ TaskCanRun
    /\ events' = Append(events, "err")
    /\ listener' = "stopped"
    /\ UNCHANGED <<envVars, walks, chanVars, guiVars, startupTask>>

RecvError ==
    /\ listener = "running"
    /\ TaskCanRun
    /\ events' = Append(events, "err")
    /\ UNCHANGED <<envVars, listener, walks, chanVars, guiVars, startupTask>>

StreamEnd ==
    /\ listener = "running"
    /\ TaskCanRun
    /\ events' = Append(events, "end")
    /\ listener' = "stopped"
    /\ UNCHANGED <<envVars, walks, chanVars, guiVars, startupTask>>

-----------------------------------------------------------------------------
(* ScreenPainterGUI::update, the frame callback run on the main thread.    *)

Queued == SubSeq(sent, rcvd + 1, Len(sent))

(* Mutant: the poll empties the queue. *)
TryRecvAll == Len(sent)

(* try_recv: the head of the queue is taken when there is one. *)
TryRecv == IF rcvd < Len(sent) THEN rcvd + 1 ELSE rcvd

(* Mutant: a set is taken only while nothing is displayed yet. *)
PolledFirstWins ==
    IF rcvd < Len(sent) /\ sent[rcvd + 1] # <<>> /\ state = None
    THEN Some(sent[rcvd + 1])
    ELSE state

(* Mutant: whatever is received is displayed, an empty set too. *)
PolledAnySet ==
    IF rcvd < Len(sent)
    THEN Some(sent[rcvd + 1])
    ELSE state

(* Mutant: the poll reads the newest set in the channel, not the oldest. *)
PolledNewest ==
    IF rcvd < Len(sent) /\ sent[Len(sent)] # <<>>
    THEN Some(sent[Len(sent)])
    ELSE state

(* Mutant: an empty set received clears the current set. *)
PolledEmptyClears ==
    IF rcvd < Len(sent)
    THEN IF sent[rcvd + 1] # <<>> THEN Some(sent[rcvd + 1]) ELSE None
    ELSE state

(* Mutant: a received set is appended to the set displayed so far. *)
PolledMerged ==
    IF rcvd < Len(sent) /\ sent[rcvd + 1] # <<>>
    THEN IF state = None THEN Some(sent[rcvd + 1])
         ELSE Some(state[1] \o sent[rcvd + 1])
    ELSE state

(* Mutant: a poll that finds the channel empty clears the current set. *)
PolledOrCleared ==
    IF rcvd < Len(sent)
    THEN IF sent[rcvd + 1] # <<>> THEN Some(sent[rcvd + 1]) ELSE state
    ELSE None

(* self.state after the poll of lines 146-150. *)
Polled ==
    IF rcvd < Len(sent) /\ sent[rcvd + 1] # <<>>
    THEN Some(sent[rcvd + 1])
    ELSE state

(* Mutant: the frame leaves no repaint requested. *)
NoRepaintRequest == FALSE

(* Mutant: the frame waits for a delivery (recv in place of try_recv). *)
FrameBeginBlockingRecv ==
    /\ guiPc = "idle"
    /\ repaintRequested
    /\ rcvd < Len(sent)
    /\ repaintRequested' = TRUE
    /\ rcvd' = rcvd + 1
    /\ state' = IF sent[rcvd + 1] # <<>> THEN Some(sent[rcvd + 1]) ELSE state
    /\ painted' = {}
    /\ skipped' = {}
    /\ guiPc' = "painting"
    /\ tryRecvOk' = (rcvd < Len(sent))
    /\ UNCHANGED <<envVars, listenerVars, walks, sent, startupTask>>

(* ctx.send_viewport_cmd (line 144) queues the command and, in egui,       *)
(* requests a repaint of the viewport it is sent to.                       *)
SendViewportCmd == TRUE

(* The host calls update for a requested repaint; update asks for the     *)
(* window level and polls the channel. The pass starts with no shapes.     *)
FrameBegin ==
    /\ guiPc = "idle"
    /\ repaintRequested
    /\ repaintRequested' = SendViewportCmd
    /\ rcvd' = TryRecv
    /\ state' = Polled
    /\ painted' = {}
    /\ skipped' = {}
    /\ guiPc' = "painting"
    /\ tryRecvOk' = (rcvd < Len(sent))
    /\ UNCHANGED <<envVars, listenerVars, walks, sent, startupTask>>

Elements == IF state = None THEN {} ELSE Range(state[1])

(* Mutant: one failed query leaves the whole frame unpainted. *)
PaintAllOrNothing(failed) ==
    IF failed = {} THEN {Marker(e) : e \in Elements} ELSE {}

(* The markers of a frame in which the queries of `failed` fail. *)
Paint(failed) == {Marker(e) : e \in Elements \ failed}

(* block_on(stream) returns: every query has succeeded or failed at one   *)
(* of its four steps (proxy, proxies, component, extents), and a failed    *)
(* one, whichever the step, is reported and paints nothing.                *)
FramePaint ==
    /\ guiPc = "painting"
    /\ \E failed \in SUBSET Elements :
          /\ painted' = Paint(failed)
          /\ skipped' = failed
    /\ guiPc' = "idle"
    /\ tryRecvOk' = FALSE
    /\ UNCHANGED <<envVars, listenerVars, walks, chanVars, state,
                   repaintRequested, startupTask>>

(* One of the frame's queries never returns: block_on(stream) never does,  *)
(* update never returns and the frame is never presented.                  *)
FrameHang ==
    /\ guiPc = "painting"
    /\ Elements # {}
    /\ guiPc' = "hung"
    /\ tryRecvOk' = FALSE
    /\ UNCHANGED <<envVars, listenerVars, walks, chanVars, state, painted,
                   skipped, repaintRequested, startupTask>>

(* The task of lines 73-75: frame.request_repaint(), once. *)
StartupRepaint ==
    /\ startupTask = "pending"
    /\ TaskCanRun
    /\ startupTask' = "done"
    /\ repaintRequested' = TRUE
    /\ UNCHANGED <<envVars, listenerVars, walks, chanVars, state, guiPc,
                   painted, skipped, tryRecvOk>>

-----------------------------------------------------------------------------
(* Specifications. *)

(* The tasks and the GUI as the app creator closure leaves them. eframe    *)
(* runs update for the window's first frame without a request.             *)
InitTasks ==
    /\ listener = "running"
    /\ sent = <<>>
    /\ rcvd = 0
    /\ state = None
    /\ guiPc = "idle"
    /\ painted = {}
    /\ skipped = {}
    /\ repaintRequested = TRUE
    /\ startupTask = "pending"
    /\ tryRecvOk = FALSE

(* The pipeline, on a document all of whose elements are showing: a walk  *)
(* of element 1 returns all the others, a walk of the last one none.       *)
Init ==
    /\ parent = ChainParent
    /\ showing = [n \in 1..PipeNodes |-> TRUE]
    /\ events = <<>>
    /\ walks = <<>>
    /\ InitTasks

WalkStep ==
    \E w \in 1..MaxEvents :
       \/ WalkResolve(w)
       \/ WalkPop(w)
       \/ WalkChild(w)
       \/ WalkReturn(w)

(* The listener loop, taking at most `max` events from the stream. *)
ListenerStep(max) ==
    \/ Len(events) < max /\ \E t \in Nodes : RecvLoadComplete(t)
    \/ Len(events) < max /\ RecvOther
    \/ Len(events) < max /\ RecvError
    \/ StreamEnd

FrameStep ==
    \/ FrameBegin
    \/ FramePaint
    \/ FrameHang

Next ==
    \/ ListenerStep(MaxEvents)
    \/ WalkStep
    \/ FrameStep
    \/ StartupRepaint

Spec == Init /\ [][Next]_vars

(* The pipeline with at most FairEvents events, for the properties of the  *)
(* frames that need fairness.                                              *)
FairNext ==
    \/ ListenerStep(FairEvents)
    \/ WalkStep
    \/ FrameStep
    \/ StartupRepaint

(* The channel and the frames. Every element of the document has been the *)
(* target of one LoadComplete event and its walk has come to the end of    *)
(* its loop: the walk of root r has popped r and every node below it and   *)
(* collected the nodes below it, and is about to send them.                *)
WalkAtReturn(r) ==
    [NewWalk(r) EXCEPT !.status = "walking",
                       !.popped = [i \in 1..(PipeNodes - r + 1) |-> r + i - 1],
                       !.collected = [i \in 1..(PipeNodes - r) |-> r + i]]

FifoInit ==
    /\ parent = ChainParent
    /\ showing = [n \in 1..PipeNodes |-> TRUE]
    /\ events = [w \in 1..PipeNodes |-> "load"]
    /\ walks = [w \in 1..PipeNodes |-> WalkAtReturn(w)]
    /\ InitTasks

FifoNext ==
    \/ \E w \in 1..PipeNodes : WalkReturn(w)
    \/ FrameStep

(* The sets are sent in any order, at any time or never; frames are fair. *)
FifoSpec ==
    FifoInit /\ [][FifoNext]_vars /\ WF_vars(FrameBegin) /\ WF_vars(FramePaint)

(* One walk over any forest, as spawned for a first LoadComplete event. *)
WalkInit ==
    /\ parent \in Forests
    /\ showing \in [1..NumNodes -> BOOLEAN]
    /\ events = <<"load">>
    /\ \E r \in Nodes : walks = <<NewWalk(r)>>
    /\ InitTasks

WalkSpec == WalkInit /\ [][WalkStep]_vars

(* The host calls update whenever a repaint is requested, and a frame      *)
(* whose queries all return finishes painting.                             *)
FairSpec ==
    Init /\ [][FairNext]_vars /\ WF_vars(FrameBegin) /\ WF_vars(FramePaint)

FairWalkSpec == WalkSpec /\ WF_vars(WalkStep)

-----------------------------------------------------------------------------
(* Properties of the walk. *)

WalkIds == 1..MaxEvents

Spawned(w) == w <= Len(walks)

Returned(w) == Spawned(w) /\ walks[w].status = "sent"

Stuck(w) == Spawned(w) /\ walks[w].status \in {"hung", "blocked"}

Ended(w) ==
    Spawned(w) /\ walks[w].status \in {"sent", "failed", "hung", "blocked"}

Subtree(r) == Descendants(r) \cup {r}

(* C1: a walk that completes without a failed call returns exactly the    *)
(* descendants of its root whose visibility query answered "showing":     *)
(* equal as sets, whatever the order the nodes were popped in.            *)
C1_ResultIsVisibleSet ==
    \A w \in WalkIds :
       Returned(w) =>
          Range(walks[w].collected) =
             {n \in Descendants(walks[w].root) : showing[n]}

C1_Witness ==
    \E w \in WalkIds :
       /\ Returned(w)
       /\ Len(walks[w].collected) >= 2
       /\ \E n \in Descendants(walks[w].root) : ~showing[n]

(* C2: the walk does not prune below invisible nodes. Every invisible     *)
(* descendant was itself popped for descent and each of its showing       *)
(* children is in the result; and for a root r with children a (showing)  *)
(* and b (not showing), b having the one child c (showing), the result is *)
(* exactly {a, c}.                                                        *)
C2_NoPruning ==
    \A w \in WalkIds :
       Returned(w) =>
          /\ \A b \in Descendants(walks[w].root) :
                ~showing[b] =>
                   /\ b \in Range(walks[w].popped)
                   /\ \A c \in ChildSet(b) :
                         showing[c] => c \in Range(walks[w].collected)
          /\ \A a, b, c \in Nodes :
                ( /\ ChildSet(walks[w].root) = {a, b}
                  /\ a # b
                  /\ ChildSet(a) = {}
                  /\ ChildSet(b) = {c}
                  /\ ChildSet(c) = {}
                  /\ showing[a] /\ ~showing[b] /\ showing[c] )
                => Range(walks[w].collected) = {a, c}

C2_Witness ==
    /\ Returned(1)
    /\ walks[1].root = 1
    /\ ChildSet(1) = {2, 3}
    /\ ChildSet(3) = {4}
    /\ showing[2] /\ ~showing[3] /\ showing[4]
    /\ walks[1].collected = <<2, 4>>

(* C10: the walk uses an explicit stack and terminates on every finite    *)
(* tree when no call hangs. No node is on the stack twice or popped       *)
(* twice, the pushed nodes are descendants of the root, the walk returns  *)
(* only with an empty stack and by then has popped the root and every     *)
(* descendant; and every walk ends: it returns, fails, or is left in a    *)
(* call that never returns.                                               *)
C10_StackDiscipline ==
    \A w \in WalkIds :
       Spawned(w) =>
          LET wk == walks[w]
          IN  /\ NoDup(wk.popped \o wk.stack \o wk.children)
              /\ Range(wk.popped \o wk.stack \o wk.children) \subseteq Subtree(wk.root)
              /\ wk.status = "sent" =>
                    /\ wk.stack = <<>>
                    /\ wk.children = <<>>
                    /\ Range(wk.popped) = Subtree(wk.root)
              /\ (wk.status = "walking" /\ wk.stack = <<>>) =>
                    Range(wk.popped) = Subtree(wk.root)

C10_Terminates ==
    /\ []C10_StackDiscipline
    /\ \A w \in WalkIds :
          Spawned(w) ~> Ended(w)

C10_Witness ==
    \E w \in WalkIds :
       /\ Returned(w)
       /\ Len(walks[w].popped) = NumNodes
       /\ \E n \in Nodes : Cardinality(ChildSet(n)) >= 2

-----------------------------------------------------------------------------
(* Properties of the pipeline. *)

AllPolled == rcvd = Len(sent)

FrameBegins == guiPc = "idle" /\ guiPc' = "painting"

EventCount(kind) == Cardinality({i \in 1..Len(events) : events[i] = kind})

(* C3 as stated: once two sets have been delivered and polled, exactly    *)
(* the elements of the second are displayed.                              *)
C3_SecondDeliveryShown ==
    (Len(sent) = 2 /\ AllPolled) => Elements = Range(sent[2])

(* C3, amended: once two sets have been delivered and polled, the second  *)
(* is displayed if it is non-empty, whichever walk was started first; an  *)
(* empty second delivery leaves the first displayed (or nothing, if the   *)
(* first was empty too).                                                  *)
C3_LastWriteWins ==
    (Len(sent) = 2 /\ AllPolled) =>
       state = IF sent[2] # <<>> THEN Some(sent[2])
               ELSE IF sent[1] # <<>> THEN Some(sent[1])
               ELSE None

C3_Witness ==
    /\ Returned(1) /\ Returned(2)
    /\ walks[1].root # walks[2].root
    /\ walks[1].collected # <<>>
    /\ walks[2].collected # <<>>
    /\ sent = <<walks[2].collected, walks[1].collected>>
    /\ AllPolled
    /\ state = Some(walks[1].collected)

(* C4: a poll that receives an empty set leaves the current set as it     *)
(* was, be it None or a set displayed before.                             *)
C4_EmptyDeliveryIgnored ==
    [][(rcvd' = rcvd + 1 /\ sent[rcvd + 1] = <<>>) => state' = state]_vars

C4_Witness ==
    /\ rcvd = 2
    /\ sent[1] # <<>>
    /\ sent[2] = <<>>
    /\ state = Some(sent[1])

(* C5 as stated: the poll of a frame leaves nothing queued, and the frame *)
(* paints the last non-empty set delivered before it began.               *)
C5_FrameDrainsInbox ==
    [][FrameBegins => (rcvd' = Len(sent) /\ state' = LastNonEmpty(sent))]_vars

(* C5, amended: the poll of a frame takes at most one set, the oldest     *)
(* queued; the sets behind it stay queued, and the frame paints the last  *)
(* non-empty set among those polled so far.                               *)
C5_FrameTakesOldest ==
    [][FrameBegins =>
          /\ rcvd' = IF Queued # <<>> THEN rcvd + 1 ELSE rcvd
          /\ Queued' = IF Queued # <<>> THEN Tail(Queued) ELSE <<>>
          /\ state' = LastNonEmpty(SubSeq(sent, 1, rcvd'))]_vars

C5_Witness ==
    /\ guiPc = "painting"
    /\ Len(sent) = 2
    /\ rcvd = 1
    /\ sent[1] # <<>>
    /\ sent[2] # <<>>
    /\ sent[2] # sent[1]
    /\ state = Some(sent[1])

(* C6: only the end of the event stream stops the listener. An error item *)
(* or a failed walk leaves it running, every LoadComplete event received, *)
(* before or after a failure, has started its walk, and a failed walk has *)
(* put nothing in the channel.                                            *)
C6_ListenerSurvivesFailures ==
    /\ listener = "stopped" <=> EventCount("end") = 1
    /\ Len(walks) = EventCount("load")
    /\ Len(sent) = Cardinality({w \in WalkIds : Returned(w)})
    /\ \A w \in WalkIds :
          (Spawned(w) /\ walks[w].status = "failed") => walks[w].collected = <<>>

C6_Witness ==
    /\ events = <<"err", "load">>
    /\ walks[1].status = "failed"
    /\ listener = "running"
    /\ sent = <<>>

(* C7: a frame paints the marker of every element of the current set      *)
(* whose queries succeeded, whatever failed for the others, and painting  *)
(* leaves the current set as it is.                                       *)
C7_FailureSkipsOneElement ==
    /\ [](guiPc = "idle" =>
             /\ skipped \subseteq Elements
             /\ painted = {Marker(e) : e \in Elements \ skipped}
             /\ Cardinality(painted) = Cardinality(Elements \ skipped))
    /\ [][guiPc = "painting" => state' = state]_vars

C7_Witness ==
    /\ guiPc = "idle"
    /\ skipped # {}
    /\ painted # {}

AnyStuck == \E w \in WalkIds : Stuck(w)

C11_OnlyLoadCompleteStartsWork ==
    [][ /\ events' # events =>
              LET kind == events'[Len(events')]
              IN  /\ events' = Append(events, kind)
                  /\ sent' = sent
                  /\ state' = state
                  /\ IF kind = "load"
                     THEN \E t \in Nodes : walks' = Append(walks, NewWalk(t))
                     ELSE walks' = walks
        /\ Len(walks') # Len(walks) => events' = Append(events, "load")
      ]_vars

C11_Witness ==
    /\ events = <<"load", "other">>
    /\ Len(walks) = 1
    /\ Len(sent) = 1
    /\ state = Some(sent[1])

Failed(w) == Spawned(w) /\ walks[w].status = "failed"

VisibleDescendants(r) == {n \in Descendants(r) : showing[n]}

(* C12: a failed call (get_children, the child's proxy, the child's       *)
(* state) at any node abandons the whole walk. The step that fails sends  *)
(* nothing and drops every reference collected so far, the failed walk    *)
(* never runs or sends again, and whatever is in the channel is the       *)
(* complete result of a walk that returned, never a part of one.          *)
C12_FailureAbandonsWalk ==
    /\ [](\A w \in WalkIds :
            Failed(w) => walks[w].collected = <<>> /\ walks[w].stack = <<>>)
    /\ [](\A i \in 1..Len(sent) :
            \E w \in WalkIds :
               /\ Returned(w)
               /\ sent[i] = walks[w].collected
               /\ Range(sent[i]) = VisibleDescendants(walks[w].root))
    /\ [][\A w \in WalkIds :
            /\ Failed(w) => walks'[w] = walks[w]
            /\ (Spawned(w) /\ ~Failed(w) /\ Failed(w)') =>
                  /\ sent' = sent
                  /\ walks'[w].dropped = walks[w].collected
                  /\ walks'[w].collected = <<>>]_vars

C12_Witness ==
    \E w \in WalkIds :
       /\ Failed(w)
       /\ Len(walks[w].dropped) >= 2
       /\ Range(walks[w].dropped) # VisibleDescendants(walks[w].root)
       /\ sent = <<>>

FrameEnds == guiPc = "painting" /\ guiPc' = "idle"

(* C13: a poll that finds the channel empty does not hold the frame up    *)
(* and leaves the current set as it was: a frame is begun also while      *)
(* nothing is queued, its try_recv then returns no set and changes        *)
(* neither the channel nor the current set, and the frame paints the      *)
(* markers of the set it kept.                                            *)
C13_EmptyPollRetainsSet ==
    /\ [][FrameBegins =>
             /\ tryRecvOk' <=> Queued # <<>>
             /\ ~tryRecvOk' => (state' = state /\ rcvd' = rcvd)]_vars
    /\ [][FrameEnds =>
             /\ state' = state
             /\ painted' = {Marker(e) : e \in Elements \ skipped'}]_vars
    /\ (guiPc = "idle" /\ Queued = <<>>) ~> (guiPc = "painting")

C13_Witness ==
    /\ guiPc = "painting"
    /\ ~tryRecvOk
    /\ rcvd = 1
    /\ state = Some(sent[1])

(* C14: the current set, when there is one, is the whole result of one    *)
(* walk that returned: it is one of the sets polled from the channel, as  *)
(* that walk sent it, holding each showing descendant of the walk's root  *)
(* once and nothing else; it is never made of parts of two walks, also    *)
(* when their subtrees overlap.                                           *)
C14_CurrentSetIsOneWalkResult ==
    state # None =>
       /\ Len(state) = 1
       /\ \E i \in 1..rcvd : state[1] = sent[i]
       /\ \E w \in WalkIds :
             /\ Returned(w)
             /\ state[1] = walks[w].collected
             /\ Range(state[1]) = VisibleDescendants(walks[w].root)
             /\ NoDup(state[1])

C14_Witness ==
    /\ Returned(1) /\ Returned(2)
    /\ walks[1].root = 1
    /\ walks[2].root = 2
    /\ Range(walks[1].collected) \cap Range(walks[2].collected) # {}
    /\ sent = <<walks[1].collected, walks[2].collected>>
    /\ rcvd = 2
    /\ state = Some(walks[2].collected)
    /\ guiPc = "idle"
    /\ painted = {Marker(e) : e \in Range(walks[2].collected)}

(* C15: a walk task sends at most once. A step that puts a set in the     *)
(* channel puts exactly one, the result (empty or not) of a walk that     *)
(* returns in that step; a walk that has sent, and one that has failed    *)
(* (its target unresolved or a call of the walk failed), never takes a    *)
(* step again; so the sets sent are as many as the walks that returned    *)
(* and never more than the LoadComplete events received.                  *)
C15_OneSendPerWalk ==
    /\ [](/\ Len(sent) = Cardinality({w \in WalkIds : Returned(w)})
          /\ Len(sent) <= EventCount("load"))
    /\ [][\A w \in WalkIds :
            (Returned(w) \/ Failed(w)) => walks'[w] = walks[w]]_vars
    /\ [][sent' # sent =>
             \E w \in WalkIds :
                /\ Spawned(w) /\ ~Returned(w) /\ Returned(w)'
                /\ sent' = Append(sent, walks[w].collected)]_vars

C15_Witness ==
    /\ EventCount("load") = 2
    /\ Returned(1)
    /\ walks[1].collected = <<>>
    /\ Failed(2)
    /\ sent = << <<>> >>

Box(x, y) == [x0 |-> x, y0 |-> y, x1 |-> x + MarkerSize, y1 |-> y + MarkerSize]

Shown == Elements \ skipped

(* The coordinates c for which both c and c + 10 are f32 values. *)
F32Range == (0 - F32Exact)..(F32Exact - MarkerSize)

C17_PresentSetStaysPresent ==
    /\ [](/\ state = None \/ (Len(state) = 1 /\ state[1] # <<>>)
          /\ state = None <=> \A i \in 1..rcvd : sent[i] = <<>>)
    /\ [][state # None => state' # None]_vars

C17_Witness ==
    /\ Len(sent) = 2
    /\ sent[1] # <<>>
    /\ sent[2] = <<>>
    /\ rcvd = 2
    /\ guiPc = "idle"
    /\ state # None
    /\ painted # {}
    /\ skipped # {}

(* C19: the root is never among the children whose state the walk         *)
(* queries (the query is made of the head of `children` only) and never   *)
(* in the result, showing or not; the result holds proper descendants of  *)
(* the root only, each at most once.                                      *)
C19_RootNeverInResult ==
    \A w \in WalkIds :
       Spawned(w) =>
          LET wk == walks[w]
          IN  /\ wk.root \notin Range(wk.children)
              /\ wk.root \notin Range(wk.collected)
              /\ Range(wk.collected) \subseteq Descendants(wk.root)
              /\ NoDup(wk.collected)

C19_Witness ==
    \E w \in WalkIds :
       /\ Returned(w)
       /\ showing[walks[w].root]
       /\ Len(walks[w].collected) = NumNodes - 1

(* C18: only a frame takes a set from the channel, one set, the oldest   *)
(* queued, so the sets are polled in the order they were sent; as long as *)
(* update keeps returning, every non-empty set delivered is the current   *)
(* set of some frame, and from some frame on every set has been polled    *)
(* and the current set is the last non-empty one delivered.               *)
C18_EveryDeliveryShownInOrder ==
    /\ [][rcvd' # rcvd =>
             /\ FrameBegins
             /\ rcvd' = rcvd + 1
             /\ sent[rcvd'] # <<>> => state' = Some(sent[rcvd'])]_vars
    /\ \A i \in 1..PipeNodes :
          (Len(sent) >= i /\ sent[i] # <<>> /\ rcvd < i)
             ~> \/ guiPc = "hung"
                \/ rcvd = i /\ state = Some(sent[i]) /\ guiPc = "painting"
    /\ <>[](\/ guiPc = "hung"
            \/ AllPolled /\ state = LastNonEmpty(sent))

C18_Witness ==
    /\ Len(sent) = 3
    /\ sent[1] # <<>>
    /\ sent[2] = <<>>
    /\ sent[3] # <<>>
    /\ sent[1] # sent[3]
    /\ rcvd = 3
    /\ tryRecvOk
    /\ guiPc = "painting"
    /\ state = Some(sent[3])

=============================================================================
